---- MODULE Spec2Model ----
(***************************************************************************)
(* Huffman coding codec of huff/huff.py: frequency table, two-queue tree   *)
(* construction, code dictionary, encode and decode.                       *)
(*                                                                         *)
(* Python objects live in `heap` (a sequence of HuffmanNode records); a    *)
(* reference is the address of the node in the heap.  An Optional[T] is    *)
(* None (the empty tuple) or Some(x) (the 1-tuple holding x).  Characters  *)
(* are their character codes, so ord(char) is the character itself.        *)
(***************************************************************************)
EXTENDS Integers, Sequences, FiniteSets

ASCII_MAX == 256

\* Bounds of the model
NumChars == 4      \* size of the input alphabet, 'a' ..
MaxLen == 4        \* longest input string
MaxBits == 3       \* longest bit list handed to decode by a caller
MaxProbeLen == 2   \* longest string handed to encode by a caller

\* the characters 'a', 'b', ... (ord('a') = 97)
Chars == 97 .. (97 + NumChars - 1)

None == <<>>
Some(x) == <<x>>
Get(o) == o[1]

Strings(n) == UNION {[1..k -> Chars] : k \in 0..n}
BitLists(n) == UNION {[1..k -> BOOLEAN] : k \in 0..n}

VARIABLES string, pc, frequency_table, heap, queue, node_queue, first, second,
          rounds, root_node, dictionary, bit_list, decoded, err, probe

vars == <<string, pc, frequency_table, heap, queue, node_queue, first, second,
          rounds, root_node, dictionary, bit_list, decoded, err, probe>>

\* Outcome of a call: a returned value or a raised exception
Return(v) == [ok |-> TRUE, val |-> v, exc |-> ""]
Raise(e) == [ok |-> FALSE, val |-> <<>>, exc |-> e]

HuffmanNode(value, freq, left, right) ==
    [value |-> value, freq |-> freq, left |-> left, right |-> right]

EmptyTable == [i \in 0..(ASCII_MAX - 1) |-> None]

\* ---- construct_frequency_table ----
RECURSIVE FreqLoop(_, _, _, _)
FreqLoop(str, i, table, hp) ==
    IF i > Len(str) THEN [frequency_table |-> table, heap |-> hp]
    ELSE LET char == str[i]
             fresh == table[char] = None
             addr == IF fresh THEN Len(hp) + 1 ELSE Get(table[char])
             hp1 == IF fresh THEN Append(hp, HuffmanNode(Some(char), 0, None, None))
                    ELSE hp
             hp2 == [hp1 EXCEPT ![addr].freq = @ + 1]
         IN  FreqLoop(str, i + 1, [table EXCEPT ![char] = Some(addr)], hp2)

construct_frequency_table(str, hp) == FreqLoop(str, 1, EmptyTable, hp)

\* ---- construct_huffman_tree ----
\* [node for node in frequency_table if node]
\* (the table is walked by ascending index; the k-th node kept is the one at
\* the k-th smallest index holding a node)
NodesOf(table) ==
    LET present == {i \in 0..(ASCII_MAX - 1) : table[i] # None}
        at(k) == CHOOSE i \in present : Cardinality({j \in present : j <= i}) = k
    IN  [k \in 1..Cardinality(present) |-> Get(table[at(k)])]

\* sorted(list, key=lambda node: node.freq): a stable sort
RECURSIVE InsertByFreq(_, _, _)
InsertByFreq(list, node, hp) ==
    IF list = <<>> THEN <<node>>
    ELSE IF hp[Head(list)].freq <= hp[node].freq
         THEN <<Head(list)>> \o InsertByFreq(Tail(list), node, hp)
         ELSE <<node>> \o list

RECURSIVE SortLoop(_, _, _, _)
SortLoop(list, i, acc, hp) ==
    IF i > Len(list) THEN acc
    ELSE SortLoop(list, i + 1, InsertByFreq(acc, list[i], hp), hp)

sorted(list, hp) == SortLoop(list, 1, <<>>, hp)

_popmin_ties(list1, list2, hp) ==
    IF ~(Len(list1) + Len(list2) > 0) THEN Raise("AssertionError")
    ELSE IF list1 = <<>> \/ (list2 # <<>> /\ hp[list2[1]].freq <= hp[list1[1]].freq)
         THEN [ok |-> TRUE, val |-> list2[1], exc |-> "",
               list1 |-> list1, list2 |-> Tail(list2)]
         ELSE [ok |-> TRUE, val |-> list1[1], exc |-> "",
               list1 |-> Tail(list1), list2 |-> list2]

_popmin(list1, list2, hp) ==
    IF ~(Len(list1) + Len(list2) > 0) THEN Raise("AssertionError")
    ELSE IF list1 = <<>> \/ (list2 # <<>> /\ hp[list2[1]].freq < hp[list1[1]].freq)
         THEN [ok |-> TRUE, val |-> list2[1], exc |-> "",
               list1 |-> list1, list2 |-> Tail(list2)]
         ELSE [ok |-> TRUE, val |-> list1[1], exc |-> "",
               list1 |-> Tail(list1), list2 |-> list2]

\* while len(queue) + len(node_queue) > 1
LoopCond_off(q, nq) == Len(q) + Len(nq) > 0

LoopCond(q, nq) == Len(q) + Len(nq) > 1

\* HuffmanNode(None, first.freq + second.freq, first, second)
Merged_left(f, s, hp) == HuffmanNode(None, hp[f].freq, Some(f), Some(s))

Merged(f, s, hp) == HuffmanNode(None, hp[f].freq + hp[s].freq, Some(f), Some(s))

\* node_queue[0]
Index0_none(list) == IF Len(list) = 0 THEN Return(None) ELSE Return(Some(list[1]))

Index0(list) == IF Len(list) = 0 THEN Raise("IndexError") ELSE Return(Some(list[1]))

\* ---- construct_dict ----
RECURSIVE construct_dict_same(_, _, _, _)
construct_dict_same(node, dict, prefix, hp) ==
    LET reset == dict = None \/ prefix = None \/ prefix = Some(<<>>)
        d0 == IF reset THEN EmptyTable ELSE Get(dict)
        p0 == IF reset THEN <<>> ELSE Get(prefix)
    IN  IF node = None THEN d0
        ELSE LET n == hp[Get(node)]
                 d1 == IF n.value # None THEN [d0 EXCEPT ![Get(n.value)] = Some(p0)]
                       ELSE d0
                 d2 == construct_dict_same(n.left, Some(d1), Some(Append(p0, FALSE)), hp)
             IN  construct_dict_same(n.right, Some(d2), Some(Append(p0, FALSE)), hp)

RECURSIVE construct_dict(_, _, _, _)
construct_dict(node, dict, prefix, hp) ==
    LET reset == dict = None \/ prefix = None \/ prefix = Some(<<>>)
        d0 == IF reset THEN EmptyTable ELSE Get(dict)
        p0 == IF reset THEN <<>> ELSE Get(prefix)
    IN  IF node = None THEN d0
        ELSE LET n == hp[Get(node)]
                 d1 == IF n.value # None THEN [d0 EXCEPT ![Get(n.value)] = Some(p0)]
                       ELSE d0
                 d2 == construct_dict(n.left, Some(d1), Some(Append(p0, FALSE)), hp)
             IN  construct_dict(n.right, Some(d2), Some(Append(p0, TRUE)), hp)

\* ---- encode ----
RECURSIVE EncodeLoop_skip(_, _, _, _)
EncodeLoop_skip(str, i, dict, out) ==
    IF i > Len(str) THEN Return(out)
    ELSE IF dict[str[i]] = None THEN EncodeLoop_skip(str, i + 1, dict, out)
    ELSE EncodeLoop_skip(str, i + 1, dict, out \o Get(dict[str[i]]))

RECURSIVE EncodeLoop(_, _, _, _)
EncodeLoop(str, i, dict, out) ==
    IF i > Len(str) THEN Return(out)
    ELSE IF dict[str[i]] = None THEN Raise("TypeError")
    ELSE EncodeLoop(str, i + 1, dict, out \o Get(dict[str[i]]))

encode(str, dict) == EncodeLoop(str, 1, dict, <<>>)

\* ---- decode ----
RECURSIVE DecodeLoop(_, _, _, _, _, _)
DecodeLoop(bits, i, root, hp, str, curr_node) ==
    IF i > Len(bits)
    THEN [ok |-> TRUE, val |-> str, exc |-> "", curr_node |-> curr_node]
    ELSE IF curr_node = None
    THEN [ok |-> FALSE, val |-> <<>>, exc |-> "AttributeError", curr_node |-> None]
    ELSE LET here == hp[Get(curr_node)]
             nxt == IF bits[i] THEN here.right ELSE here.left
         IN  IF nxt = None
             THEN [ok |-> FALSE, val |-> <<>>, exc |-> "AttributeError",
                   curr_node |-> None]
             ELSE IF hp[Get(nxt)].value # None
             THEN DecodeLoop(bits, i + 1, root, hp, str \o hp[Get(nxt)].value, root)
             ELSE DecodeLoop(bits, i + 1, root, hp, str, nxt)

decode(bits, root, hp) == DecodeLoop(bits, 1, root, hp, <<>>, root)

NoProbe == [op |-> "none", arg |-> <<>>, ok |-> TRUE, val |-> <<>>, exc |-> "",
            curr_node |-> None]

Init ==
    /\ string \in Strings(MaxLen)
    /\ pc = "start"
    /\ frequency_table = EmptyTable
    /\ heap = <<>>
    /\ queue = <<>>
    /\ node_queue = <<>>
    /\ first = None
    /\ second = None
    /\ rounds = 0
    /\ root_node = None
    /\ dictionary = EmptyTable
    /\ bit_list = <<>>
    /\ decoded = <<>>
    /\ err = ""
    /\ probe = NoProbe

\* main: frequency_table = construct_frequency_table(string)
ConstructFrequencyTable ==
    /\ pc = "start"
    /\ LET r == construct_frequency_table(string, heap)
       IN  /\ frequency_table' = r.frequency_table
           /\ heap' = r.heap
    /\ pc' = "table"
    /\ UNCHANGED <<string, queue, node_queue, first, second, rounds, root_node,
                   dictionary, bit_list, decoded, err, probe>>

\* construct_huffman_tree: the two queues are set up
SortQueue ==
    /\ pc = "table"
    /\ queue' = sorted(NodesOf(frequency_table), heap)
    /\ node_queue' = <<>>
    /\ pc' = "loop"
    /\ UNCHANGED <<string, frequency_table, heap, first, second, rounds, root_node,
                   dictionary, bit_list, decoded, err, probe>>

\* construct_huffman_tree: one round of the while loop
MergeRound ==
    /\ pc = "loop"
    /\ LoopCond(queue, node_queue)
    /\ LET p1 == _popmin(queue, node_queue, heap)
       IN  IF ~p1.ok
           THEN /\ err' = p1.exc
                /\ pc' = "error"
                /\ UNCHANGED <<queue, node_queue, first, second, heap, rounds>>
           ELSE LET p2 == _popmin(p1.list1, p1.list2, heap)
                IN  IF ~p2.ok
                    THEN /\ err' = p2.exc
                         /\ pc' = "error"
                         /\ first' = Some(p1.val)
                         /\ queue' = p1.list1
                         /\ node_queue' = p1.list2
                         /\ UNCHANGED <<second, heap, rounds>>
                    ELSE /\ first' = Some(p1.val)
                         /\ second' = Some(p2.val)
                         /\ heap' = Append(heap, Merged(p1.val, p2.val, heap))
                         /\ queue' = p2.list1
                         /\ node_queue' = Append(p2.list2, Len(heap) + 1)
                         /\ rounds' = rounds + 1
                         /\ UNCHANGED <<pc, err>>
    /\ UNCHANGED <<string, frequency_table, root_node, dictionary, bit_list,
                   decoded, probe>>

\* construct_huffman_tree: the loop is left and node_queue[0] is returned
ReturnRoot ==
    /\ pc = "loop"
    /\ ~LoopCond(queue, node_queue)
    /\ LET r == Index0(node_queue)
       IN  IF r.ok
           THEN /\ root_node' = r.val
                /\ pc' = "tree"
                /\ err' = err
           ELSE /\ root_node' = root_node
                /\ pc' = "error"
                /\ err' = r.exc
    /\ UNCHANGED <<string, frequency_table, heap, queue, node_queue, first, second,
                   rounds, dictionary, bit_list, decoded, probe>>

\* main: dictionary = construct_dict(root_node)
ConstructDict ==
    /\ pc = "tree"
    /\ dictionary' = construct_dict(root_node, None, None, heap)
    /\ pc' = "dict"
    /\ UNCHANGED <<string, frequency_table, heap, queue, node_queue, first, second,
                   rounds, root_node, bit_list, decoded, err, probe>>

\* main: bit_list = encode(string, dictionary)
Encode ==
    /\ pc = "dict"
    /\ LET r == encode(string, dictionary)
       IN  IF r.ok
           THEN /\ bit_list' = r.val
                /\ pc' = "encoded"
                /\ err' = err
           ELSE /\ bit_list' = bit_list
                /\ pc' = "error"
                /\ err' = r.exc
    /\ UNCHANGED <<string, frequency_table, heap, queue, node_queue, first, second,
                   rounds, root_node, dictionary, decoded, probe>>

\* main: decoded = decode(bit_list, root_node)
Decode ==
    /\ pc = "encoded"
    /\ LET r == decode(bit_list, root_node, heap)
       IN  IF r.ok
           THEN /\ decoded' = r.val
                /\ pc' = "decoded"
                /\ err' = err
           ELSE /\ decoded' = decoded
                /\ pc' = "error"
                /\ err' = r.exc
    /\ UNCHANGED <<string, frequency_table, heap, queue, node_queue, first, second,
                   rounds, root_node, dictionary, bit_list, probe>>

\* A caller hands another string to encode with the dictionary in hand
\* (encode and decode change nothing, so one further call is followed)
EncodeOther ==
    /\ pc = "decoded"
    /\ probe.op = "none"
    /\ \E s \in Strings(MaxProbeLen) :
          LET r == encode(s, dictionary)
          IN  probe' = [op |-> "encode", arg |-> s, ok |-> r.ok, val |-> r.val,
                        exc |-> r.exc, curr_node |-> None]
    /\ UNCHANGED <<string, pc, frequency_table, heap, queue, node_queue, first,
                   second, rounds, root_node, dictionary, bit_list, decoded, err>>

\* A caller hands another bit list to decode with the tree in hand
DecodeOther ==
    /\ pc = "decoded"
    /\ probe.op = "none"
    /\ \E bits \in BitLists(MaxBits) :
          LET r == decode(bits, root_node, heap)
          IN  probe' = [op |-> "decode", arg |-> bits, ok |-> r.ok, val |-> r.val,
                        exc |-> r.exc, curr_node |-> r.curr_node]
    /\ UNCHANGED <<string, pc, frequency_table, heap, queue, node_queue, first,
                   second, rounds, root_node, dictionary, bit_list, decoded, err>>

Next ==
    \/ ConstructFrequencyTable
    \/ SortQueue
    \/ MergeRound
    \/ ReturnRoot
    \/ ConstructDict
    \/ Encode
    \/ Decode
    \/ EncodeOther
    \/ DecodeOther

Spec == Init /\ [][Next]_vars

\* ---- helpers of the properties ----
Terminal == pc \in {"decoded", "error"}
TreeBuilt == pc \in {"tree", "dict", "encoded", "decoded"}
DictBuilt == pc \in {"dict", "encoded", "decoded"}

Distinct(str) == {str[i] : i \in 1..Len(str)}
Count(str, c) == Cardinality({i \in 1..Len(str) : str[i] = c})

IsPrefix(u, v) == Len(u) <= Len(v) /\ \A i \in 1..Len(u) : u[i] = v[i]

Coded(dict) == {c \in 0..(ASCII_MAX - 1) : dict[c] # None}

IsLeaf(n) == n.value # None /\ n.left = None /\ n.right = None
IsInternal(n) == n.value = None /\ n.left # None /\ n.right # None

RECURSIVE NodesUnder(_, _)
NodesUnder(node, hp) ==
    IF node = None THEN {}
    ELSE {Get(node)} \cup NodesUnder(hp[Get(node)].left, hp)
                     \cup NodesUnder(hp[Get(node)].right, hp)

RECURSIVE SumOver(_, _)
SumOver(S, f) ==
    IF S = {} THEN 0
    ELSE LET x == CHOOSE y \in S : TRUE IN f[x] + SumOver(S \ {x}, f)

RECURSIVE Pow2(_)
Pow2(k) == IF k = 0 THEN 1 ELSE 2 * Pow2(k - 1)

\* Longest codeword length tried for the competing codes
MaxCodeLen == NumChars

\* Kraft's inequality: the code lengths L admit a prefix-free binary code
Kraft(L) ==
    SumOver(DOMAIN L, [c \in DOMAIN L |-> Pow2(MaxCodeLen - L[c])]) <= Pow2(MaxCodeLen)

\* Total length of the input under the code lengths L
Cost(str, L) == SumOver(DOMAIN L, [c \in DOMAIN L |-> Count(str, c) * L[c]])

HuffmanLengths == [c \in Distinct(string) |-> Len(Get(dictionary[c]))]

Minimal ==
    \A L \in [Distinct(string) -> 1..MaxCodeLen] :
        Kraft(L) => Cost(string, HuffmanLengths) <= Cost(string, L)

\* Order in which nodes enter the pending collection: the leaves in the order
\* of the frequency table, then the merged nodes in the order of creation
Rank(a) == IF heap[a].value # None THEN Get(heap[a].value) ELSE ASCII_MAX + a
Before(a, b) ==
    \/ heap[a].freq < heap[b].freq
    \/ heap[a].freq = heap[b].freq /\ Rank(a) < Rank(b)

Elems(list) == {list[i] : i \in 1..Len(list)}

\* C1: for every non-empty input string, the run of frequency table, tree,
\* dictionary, encode and decode ends with the decoded string equal to the
\* input.
RoundTrip ==
    (string # <<>> /\ Terminal) => (pc = "decoded" /\ decoded = string)

\* C2: in the dictionary derived from a tree the builder returned, no codeword
\* of a symbol is a prefix of the codeword of another symbol.
PrefixFree ==
    DictBuilt =>
        LET coded == Coded(dictionary)
        IN  \A a \in coded : \A b \in coded \ {a} :
                ~IsPrefix(Get(dictionary[a]), Get(dictionary[b]))

PrefixFreeWitness ==
    /\ pc = "dict"
    /\ LET coded == Coded(dictionary)
       IN  /\ Cardinality(coded) = 3
           /\ \E a \in coded : \E b \in coded :
                 Len(Get(dictionary[a])) = 1 /\ Len(Get(dictionary[b])) = 2

\* C3: for every (non-empty) input the encoded length is the sum over the
\* symbols of frequency times codeword length, and no code lengths that admit
\* a prefix-free binary code give a smaller sum.
Optimality ==
    (string # <<>> /\ Terminal) =>
        /\ pc = "decoded"
        /\ Len(bit_list) = Cost(string, HuffmanLengths)
        /\ Minimal

\* The same, for the inputs the builder returns a tree for (two or more
\* distinct symbols)
OptimalityWhenEncoded ==
    pc \in {"encoded", "decoded"} =>
        /\ Len(bit_list) = Cost(string, HuffmanLengths)
        /\ Minimal

\* C4: decode of a bit list that ends in the middle of a codeword (the
\* current node is not back at the root after the last bit) fails.
TruncatedStreamFails ==
    (probe.op = "decode" /\ probe.curr_node # root_node) => ~probe.ok

\* C5: encode of a string holding a symbol without an entry in the dictionary
\* fails and returns no bit list, wherever the symbol stands in the string.
UnknownSymbolFails ==
    (probe.op = "encode" /\ \E i \in 1..Len(probe.arg) : dictionary[probe.arg[i]] = None)
        => (~probe.ok /\ probe.exc # "" /\ probe.val = <<>>)

UnknownSymbolWitness ==
    /\ probe.op = "encode"
    /\ Len(probe.arg) = 2
    /\ dictionary[probe.arg[1]] # None
    /\ dictionary[probe.arg[2]] = None
    /\ ~probe.ok

\* C6: for an input of one distinct symbol the builder returns a single leaf,
\* the codeword of the symbol has length at least 1, and decode of the encoded
\* input gives the input back.
SingleSymbol ==
    (Cardinality(Distinct(string)) = 1 /\ Terminal) =>
        /\ pc = "decoded"
        /\ root_node # None
        /\ IsLeaf(heap[Get(root_node)])
        /\ Len(Get(dictionary[string[1]])) >= 1
        /\ decoded = string

\* C7: the builder, given the frequency table of the empty input (no entry),
\* fails (node_queue[0] raises on the empty list) and returns no tree.
EmptyAlphabetFails ==
    (frequency_table = EmptyTable /\ pc \notin {"start", "table", "loop"}) =>
        (pc = "error" /\ err = "IndexError" /\ root_node = None)

EmptyAlphabetWitness ==
    /\ string = <<>>
    /\ pc = "error"
    /\ rounds = 0
    /\ queue = <<>>

TreeShape ==
    TreeBuilt =>
        \A a \in NodesUnder(root_node, heap) :
            LET n == heap[a]
            IN  \/ /\ IsLeaf(n)
                   /\ n.freq = Count(string, Get(n.value))
                \/ /\ IsInternal(n)
                   /\ n.freq = heap[Get(n.left)].freq + heap[Get(n.right)].freq

TreeShapeWitness ==
    /\ pc = "tree"
    /\ Cardinality(NodesUnder(root_node, heap)) = 5
    /\ \E a \in NodesUnder(root_node, heap) :
          IsInternal(heap[a]) /\ IsInternal(heap[Get(heap[a].right)])

\* C10: with n >= 2 distinct symbols the loop runs n - 1 rounds, each round
\* leaving one pending node fewer, the assertion of _popmin never fails, and
\* at exit queue is empty and node_queue holds the one node returned as root.
BuilderTerminates ==
    LET n == Cardinality(Distinct(string))
    IN  n >= 2 =>
            /\ err # "AssertionError"
            /\ rounds <= n - 1
            /\ pc = "loop" => Len(queue) + Len(node_queue) = n - rounds
            /\ TreeBuilt =>
                  /\ rounds = n - 1
                  /\ queue = <<>>
                  /\ Len(node_queue) = 1
                  /\ root_node = Some(node_queue[1])

BuilderTerminatesWitness ==
    /\ pc = "tree"
    /\ Cardinality(Distinct(string)) = 3
    /\ rounds = 2
    /\ queue = <<>>

====
